---- MODULE Spec2Model ----
(***************************************************************************)
(* Model of src/V2/fetch_reviews.py: the fetch / expand / sample / write   *)
(* pipeline of main(), with fetch_reviews and extract_reviewer_id as       *)
(* operators computed the way the Python code computes them.               *)
(*                                                                         *)
(* Python values are modelled as follows.                                  *)
(*   str        a sequence of one-character strings (so that `in` on two   *)
(*              strings is a real substring test); reviewer ids, paper ids *)
(*              and urls, which the code only copies and tests for         *)
(*              emptiness, are TLA+ strings                                *)
(*   attribute  [kind, items]: kind "missing" (hasattr is false), "none"   *)
(*              (the value None), "int" (a value that is neither iterable  *)
(*              nor sized), "list" (a list, whose elements are items)      *)
(*   call       [raised, value]: raised is TRUE when the call ends with an *)
(*              exception                                                  *)
(*   Optional   [isNone, s]                                                *)
(***************************************************************************)
EXTENDS Integers, Sequences, FiniteSets, TLC

\* ------------------------------------------------------------------ bounds
MaxPapers == 2      \* rows of the input file
MaxNotes == 2       \* notes the service returns for one forum
\* SAMPLE_SIZE is 150 at src/V2/fetch_reviews.py:21; scaled so that the
\* accumulated rows can fall below, meet and exceed it within the bounds.
SAMPLE_SIZE == 2

VARIABLES
    pc,                   \* position in main()
    papers,               \* list read from INPUT_FILE
    idx,                  \* number of papers whose loop body has run
    response,             \* outcome of client.get_all_notes for the current paper
    reviews,              \* value fetch_reviews returned for the current paper
    reviewer_ids,         \* values extract_reviewer_id returned, one per review
    expanded_rows,
    papers_with_reviews,
    total_reviews,
    errors,
    sampled_rows,
    output_file,          \* contents of OUTPUT_FILE: [written, rows]
    console,              \* last [ERROR]/[SUCCESS] line printed by main()
    error_log,            \* paper ids of the "[X] Error for ..." lines printed
    fetch_calls,          \* paper ids passed to client.get_all_notes, in order
    prev_sampled,         \* SpecTwice: output of the previous sampling step
    samplings             \* number of times the sampling step has run

vars == <<pc, papers, idx, response, reviews, reviewer_ids, expanded_rows,
          papers_with_reviews, total_reviews, errors, sampled_rows,
          output_file, console, error_log, fetch_calls, prev_sampled, samplings>>

\* ------------------------------------------------------------ Python values
PyMissing == [kind |-> "missing", items |-> <<>>]
PyNone == [kind |-> "none", items |-> <<>>]
PyInt == [kind |-> "int", items |-> <<>>]
PyList(items) == [kind |-> "list", items |-> items]

HasAttr(attr) == attr.kind # "missing"
Iterable(v) == v.kind = "list"
Sized(v) == v.kind = "list"
Truthy(v) == \/ v.kind = "int"
             \/ v.kind = "list" /\ v.items # <<>>

Raise == [raised |-> TRUE, value |-> <<>>]
Return(v) == [raised |-> FALSE, value |-> v]

None == [isNone |-> TRUE, s |-> ""]
Some(s) == [isNone |-> FALSE, s |-> s]

\* Python's `t in s` for two strings
Contains(s, t) ==
    \E i \in 0..(Len(s) - Len(t)) : SubSeq(s, i + 1, i + Len(t)) = t

Official_Review ==
    <<"O", "f", "f", "i", "c", "i", "a", "l", "_", "R", "e", "v", "i", "e", "w">>

\* ------------------------------------------------------------ fetch_reviews
\* only the first invitation is tested
AnyInvitationMatches_first(invitations) ==
    invitations # <<>> /\ Contains(Head(invitations), Official_Review)

\* the inner loop with its break: some invitation contains the marker
RECURSIVE AnyInvitationMatches(_)
AnyInvitationMatches(invitations) ==
    IF invitations = <<>> THEN FALSE
    ELSE IF Contains(Head(invitations), Official_Review) THEN TRUE
    ELSE AnyInvitationMatches(Tail(invitations))

\* the loop over notes; iterating a non-iterable invitations value raises
RECURSIVE FilterNotes(_, _)
FilterNotes(ns, acc) ==
    IF ns = <<>> THEN Return(acc)
    ELSE LET note == Head(ns)
             invitations == IF HasAttr(note.invitations)
                            THEN note.invitations ELSE PyList(<<>>)
         IN IF ~Iterable(invitations) THEN Raise
            ELSE FilterNotes(Tail(ns),
                             IF AnyInvitationMatches(invitations.items)
                             THEN Append(acc, note) ELSE acc)

\* the try block
fetch_reviews_try(resp) ==
    IF resp.raised THEN Raise ELSE FilterNotes(resp.notes, <<>>)

\* a fetch_reviews without its except clause
fetch_reviews_unguarded(resp) ==
    LET r == fetch_reviews_try(resp)
    IN [raised |-> r.raised, value |-> r.value, logged |-> FALSE]

\* [raised, value, logged]: logged is TRUE when the except clause printed
fetch_reviews(resp) ==
    LET r == fetch_reviews_try(resp)
    IN IF r.raised
       THEN [raised |-> FALSE, value |-> <<>>, logged |-> TRUE]
       ELSE [raised |-> FALSE, value |-> r.value, logged |-> FALSE]

\* ------------------------------------------------------ extract_reviewer_id
extract_reviewer_id_try(review) ==
    LET signatures == IF HasAttr(review.signatures)
                      THEN review.signatures ELSE PyList(<<>>)
    IN IF ~Truthy(signatures) THEN Return(None)
       ELSE IF ~Sized(signatures) THEN Raise
       ELSE IF Len(signatures.items) > 0
            THEN Return(Some(signatures.items[1]))
            ELSE Return(None)

\* an extract_reviewer_id without its except clause
extract_reviewer_id_unguarded(review) == extract_reviewer_id_try(review)

extract_reviewer_id(review) ==
    LET r == extract_reviewer_id_try(review)
    IN IF r.raised THEN Return(None) ELSE r

\* ------------------------------------------------------------------- inputs
PaperRefs ==
    <<[paper_id |-> "P1", forum_url |-> "url1"],
      [paper_id |-> "P2", forum_url |-> "url2"],
      [paper_id |-> "P3", forum_url |-> "url3"],
      [paper_id |-> "P4", forum_url |-> "url4"]>>

InputFiles == {SubSeq(PaperRefs, 1, n) : n \in 0..MaxPapers}

Comment == <<"C", "o", "m", "m", "e", "n", "t">>
official_review ==
    <<"o", "f", "f", "i", "c", "i", "a", "l", "_", "r", "e", "v", "i", "e", "w">>

InvitationValues ==
    { PyMissing,
      PyNone,
      PyList(<<Official_Review>>),
      PyList(<<official_review>>),
      PyList(<<Comment, <<"V", "/">> \o Official_Review \o <<"2">> >>),
      PyList(<<Official_Review, Official_Review \o <<"2">> >>) }

SignatureValues ==
    { PyMissing,
      PyNone,
      PyInt,
      PyList(<<>>),
      PyList(<<"">>),
      PyList(<<"R1">>),
      PyList(<<"R2", "R1">>) }

Notes ==
    {[invitations |-> inv, signatures |-> PyList(<<"R1">>)] :
        inv \in InvitationValues}
    \cup
    {[invitations |-> PyList(<<Official_Review>>), signatures |-> sig] :
        sig \in SignatureValues}

NoteSeqs == UNION {[1..n -> Notes] : n \in 0..MaxNotes}

Responses ==
    {[raised |-> TRUE, notes |-> <<>>]}
    \cup {[raised |-> FALSE, notes |-> ns] : ns \in NoteSeqs}

NoResponse == [raised |-> FALSE, notes |-> <<>>]
NoFile == [written |-> FALSE, rows |-> <<>>]

\* ----------------------------------------------------------- main(): the loop
\* `if reviewer_id is not None:`
IsNotNone(reviewer_id) == ~reviewer_id.isNone

\* `if reviewer_id:`
IsTruthyId(reviewer_id) == ~reviewer_id.isNone /\ reviewer_id.s # ""

\* expanded_rows.append(row), with duplicates dropped
AppendRow_dedup(rows, row) ==
    IF \E i \in 1..Len(rows) : rows[i] = row THEN rows ELSE Append(rows, row)

\* expanded_rows.append(row)
AppendRow(rows, row) == Append(rows, row)

\* the loop over one paper's reviews; st is [raised, rows, review_count, ids]
RECURSIVE ExpandReviews(_, _, _)
ExpandReviews(paper, rs, st) ==
    IF rs = <<>> THEN st
    ELSE LET r == extract_reviewer_id(Head(rs))
         IN IF r.raised THEN [st EXCEPT !.raised = TRUE]
            ELSE LET reviewer_id == r.value
                     row == [paper_id |-> paper.paper_id,
                             forum_url |-> paper.forum_url,
                             reviewer_id |-> reviewer_id.s]
                 IN ExpandReviews(paper, Tail(rs),
                        [raised |-> FALSE,
                         rows |-> IF IsTruthyId(reviewer_id)
                                  THEN AppendRow(st.rows, row) ELSE st.rows,
                         review_count |-> IF IsTruthyId(reviewer_id)
                                          THEN st.review_count + 1
                                          ELSE st.review_count,
                         ids |-> Append(st.ids, reviewer_id)])

\* the counters after one paper, counting every fetched review
UpdateStats_per_review(rs, review_count, stats) ==
    IF rs # <<>>
    THEN [stats EXCEPT !.papers_with_reviews = @ + 1,
                       !.total_reviews = @ + Len(rs)]
    ELSE stats

\* the counters after one paper; stats is [papers_with_reviews, total_reviews, errors]
UpdateStats(rs, review_count, stats) ==
    IF rs # <<>>
    THEN IF review_count > 0
         THEN [stats EXCEPT !.papers_with_reviews = @ + 1,
                            !.total_reviews = @ + review_count]
         ELSE stats
    ELSE IF Len(rs) = 0
         THEN stats
         ELSE [stats EXCEPT !.errors = @ + 1]

Connect ==
    /\ pc = "connect"
    /\ \/ pc' = "read" /\ UNCHANGED console
       \/ pc' = "done" /\ console' = "ERROR connect"
    /\ UNCHANGED <<papers, idx, response, reviews, reviewer_ids, expanded_rows,
                   papers_with_reviews, total_reviews, errors, sampled_rows,
                   output_file, error_log, fetch_calls, prev_sampled, samplings>>

ReadInput ==
    /\ pc = "read"
    /\ \/ /\ \E file \in InputFiles : papers' = file
          /\ pc' = IF papers' = <<>> THEN "summary" ELSE "loop"
          /\ UNCHANGED console
       \/ pc' = "done" /\ console' = "ERROR input" /\ UNCHANGED papers
    /\ UNCHANGED <<idx, response, reviews, reviewer_ids, expanded_rows,
                   papers_with_reviews, total_reviews, errors, sampled_rows,
                   output_file, error_log, fetch_calls, prev_sampled, samplings>>

\* one iteration of the loop over papers, up to the rate-limiting test
ProcessPaper ==
    /\ pc = "loop"
    /\ idx < Len(papers)
    /\ \E resp \in Responses :
         LET paper == papers[idx + 1]
             f == fetch_reviews(resp)
             e == ExpandReviews(paper, f.value,
                                [raised |-> FALSE, rows |-> expanded_rows,
                                 review_count |-> 0, ids |-> <<>>])
             stats == UpdateStats(f.value, e.review_count,
                                  [papers_with_reviews |-> papers_with_reviews,
                                   total_reviews |-> total_reviews,
                                   errors |-> errors])
         IN /\ response' = resp
            /\ fetch_calls' = Append(fetch_calls, paper.paper_id)
            /\ error_log' = IF f.logged THEN Append(error_log, paper.paper_id)
                            ELSE error_log
            /\ reviews' = f.value
            /\ reviewer_ids' = e.ids
            /\ expanded_rows' = e.rows
            /\ IF f.raised \/ e.raised
               THEN /\ pc' = "crashed"
                    /\ UNCHANGED <<idx, papers_with_reviews, total_reviews, errors>>
               ELSE /\ papers_with_reviews' = stats.papers_with_reviews
                    /\ total_reviews' = stats.total_reviews
                    /\ errors' = stats.errors
                    /\ idx' = idx + 1
                    /\ pc' = "delay"
    /\ UNCHANGED <<papers, sampled_rows, output_file, console, prev_sampled,
                   samplings>>

\* the rate-limiting test that ends an iteration: time.sleep(DELAY_SECONDS)
\* unless this was the last paper. The locals of the finished iteration are
\* dead from here on (each is assigned before it is read again).
RateLimit ==
    /\ pc = "delay"
    /\ pc' = IF idx < Len(papers) THEN "loop" ELSE "summary"
    /\ response' = NoResponse
    /\ reviews' = <<>>
    /\ reviewer_ids' = <<>>
    /\ UNCHANGED <<papers, idx, expanded_rows, papers_with_reviews,
                   total_reviews, errors, sampled_rows, output_file, console,
                   error_log, fetch_calls, prev_sampled, samplings>>

\* ------------------------------------------------- main(): after the loop
\* a summary that never ends the run
IsRunFatal_never(rows) == FALSE

\* `if not expanded_rows:` after the summary
IsRunFatal(rows) == rows = <<>>

Summary ==
    /\ pc = "summary"
    /\ IF IsRunFatal(expanded_rows)
       THEN pc' = "done" /\ console' = "ERROR no reviews"
       ELSE pc' = "sample" /\ UNCHANGED console
    /\ UNCHANGED <<papers, idx, response, reviews, reviewer_ids, expanded_rows,
                   papers_with_reviews, total_reviews, errors, sampled_rows,
                   output_file, error_log, fetch_calls, prev_sampled, samplings>>

Min(a, b) == IF a < b THEN a ELSE b

\* random.choices(population, k=k): sampling with replacement
random_choices(pool, k, js) == [i \in 1..k |-> pool[js[i] + 1]]

\* random.sample(population, k): k times, draw j below the size of the pool,
\* take pool[j] and move the pool's last element into its place; js are the
\* numbers the generator returns
RECURSIVE random_sample(_, _, _)
random_sample(pool, k, js) ==
    IF k = 0 THEN <<>>
    ELSE LET n == Len(pool)
             j == Head(js) + 1
         IN <<pool[j]>>
            \o random_sample(SubSeq([pool EXCEPT ![j] = pool[n]], 1, n - 1),
                             k - 1, Tail(js))

\* what an unseeded generator can return for random.sample on n elements
Draws(n, k) == {js \in [1..k -> 0..(n - 1)] : \A i \in 1..k : js[i] <= n - i}

\* the sampling step, given the generator's draws
SampleRows(rows, js) ==
    LET sample_count == Min(SAMPLE_SIZE, Len(rows))
    IN IF Len(rows) > SAMPLE_SIZE
       THEN random_sample(rows, sample_count, js)
       ELSE rows

Sample ==
    /\ pc = "sample"
    /\ \E js \in Draws(Len(expanded_rows), Min(SAMPLE_SIZE, Len(expanded_rows))) :
         sampled_rows' = SampleRows(expanded_rows, js)
    /\ samplings' = samplings + 1
    /\ pc' = "write"
    /\ UNCHANGED <<papers, idx, response, reviews, reviewer_ids, expanded_rows,
                   papers_with_reviews, total_reviews, errors, output_file,
                   console, error_log, fetch_calls, prev_sampled>>

\* the try block that writes OUTPUT_FILE, or its except clause; what a
\* failed write leaves on disk is not modelled
Write ==
    /\ pc = "write"
    /\ \/ /\ output_file' = [written |-> TRUE, rows |-> sampled_rows]
          /\ console' = "SUCCESS"
       \/ /\ console' = "ERROR write"
          /\ UNCHANGED output_file
    /\ pc' = "done"
    /\ UNCHANGED <<papers, idx, response, reviews, reviewer_ids, expanded_rows,
                   papers_with_reviews, total_reviews, errors, sampled_rows,
                   error_log, fetch_calls, prev_sampled, samplings>>

Init ==
    /\ pc = "connect"
    /\ papers = <<>>
    /\ idx = 0
    /\ response = NoResponse
    /\ reviews = <<>>
    /\ reviewer_ids = <<>>
    /\ expanded_rows = <<>>
    /\ papers_with_reviews = 0
    /\ total_reviews = 0
    /\ errors = 0
    /\ sampled_rows = <<>>
    /\ output_file = NoFile
    /\ console = ""
    /\ error_log = <<>>
    /\ fetch_calls = <<>>
    /\ prev_sampled = <<>>
    /\ samplings = 0

Next ==
    \/ Connect
    \/ ReadInput
    \/ ProcessPaper
    \/ RateLimit
    \/ Summary
    \/ Sample
    \/ Write

Spec == Init /\ [][Next]_vars

\* The sampling step run a second time over the same accumulated rows, as a
\* second run of the pipeline against an unchanged service would.
SampleAgain ==
    /\ pc = "write"
    /\ samplings = 1
    /\ prev_sampled' = sampled_rows
    /\ \E js \in Draws(Len(expanded_rows), Min(SAMPLE_SIZE, Len(expanded_rows))) :
         sampled_rows' = SampleRows(expanded_rows, js)
    /\ samplings' = 2
    /\ UNCHANGED <<pc, papers, idx, response, reviews, reviewer_ids,
                   expanded_rows, papers_with_reviews, total_reviews, errors,
                   output_file, console, error_log, fetch_calls>>

NextTwice ==
    \/ Next
    \/ SampleAgain

SpecTwice == Init /\ [][NextTwice]_vars

\* ------------------------------------------------------------------ claims
AfterLoop == {"summary", "sample", "write", "done"}

PaperIds(ps) == [i \in 1..Len(ps) |-> ps[i].paper_id]

\* the try block of fetch_reviews ends with an exception: the remote call
\* raised, or a note's invitations cannot be iterated
FetchFails(resp) ==
    \/ resp.raised
    \/ \E i \in 1..Len(resp.notes) : resp.notes[i].invitations.kind = "none"

\* C1: a fetch that fails returns the empty list instead of raising, the run
\* never aborts, and the fetcher is invoked exactly once for every paper, in
\* input order: after k iterations the requests are those of the first k
\* papers, and the loop is left only after the last paper.
C1_FailureNeverAborts ==
    /\ pc # "crashed"
    /\ (pc = "delay" /\ FetchFails(response)) => reviews = <<>>
    /\ fetch_calls = PaperIds(SubSeq(papers, 1, idx))
    /\ pc \in AfterLoop => idx = Len(papers)

\* a paper whose fetch failed is followed by a paper that contributed rows
C1_Witness ==
    /\ pc = "delay"
    /\ idx = 2
    /\ error_log = <<"P1">>
    /\ \E i \in 1..Len(expanded_rows) : expanded_rows[i].paper_id = "P2"

\* C2: at the end of the run the errors counter equals the number of papers
\* whose fetch failed (one "[X] Error" line each); a paper with no official
\* review leaves it alone.
C2_ErrorsCountFailures ==
    pc \in AfterLoop => errors = Len(error_log)

Occurrences(seq, x) == Cardinality({i \in 1..Len(seq) : seq[i] = x})

\* C3: when there are at most SAMPLE_SIZE rows the sampled output is the row
\* list itself; otherwise it has exactly SAMPLE_SIZE rows taken from pairwise
\* distinct positions of the row list. Positions that are pairwise distinct
\* exist exactly when no row value occurs more often in the output than in
\* the row list.
C3_SamplerBoundary ==
    (pc \in {"write", "done"} /\ samplings > 0) =>
        IF Len(expanded_rows) <= SAMPLE_SIZE
        THEN sampled_rows = expanded_rows
        ELSE /\ Len(sampled_rows) = SAMPLE_SIZE
             /\ \A i \in 1..Len(sampled_rows) :
                  /\ Occurrences(expanded_rows, sampled_rows[i]) >= 1
                  /\ Occurrences(sampled_rows, sampled_rows[i])
                       <= Occurrences(expanded_rows, sampled_rows[i])

\* more rows than SAMPLE_SIZE were accumulated and sampled
C3_Witness ==
    /\ pc = "write"
    /\ Len(expanded_rows) > SAMPLE_SIZE
    /\ Len(sampled_rows) = SAMPLE_SIZE

\* C4: the sampling step run twice over the same accumulated rows returns the
\* same output, in contents and in order.
C4_SamplerDeterministic ==
    samplings = 2 => sampled_rows = prev_sampled

\* C5: a run that accumulated no row reports failure and never attempts the
\* write; the write is attempted only with at least one sampled row and
\* after every paper has been processed.
WriteAttempted ==
    pc = "done" /\ console \in {"SUCCESS", "ERROR write"}

C5_RunFatalOnEmpty ==
    /\ expanded_rows = <<>> =>
          /\ pc \notin {"sample", "write"}
          /\ ~WriteAttempted
          /\ ~output_file.written
          /\ pc = "done" =>
                console \in {"ERROR connect", "ERROR input", "ERROR no reviews"}
    /\ (pc = "write" \/ WriteAttempted \/ output_file.written) =>
          /\ Len(sampled_rows) >= 1
          /\ idx = Len(papers)
          /\ fetch_calls = PaperIds(papers)

\* every paper was processed, none gave a row, and the run ended in failure
C5_Witness ==
    /\ pc = "done"
    /\ Len(papers) = 2
    /\ idx = 2
    /\ expanded_rows = <<>>
    /\ console = "ERROR no reviews"

UpperCase == <<"A", "B", "C", "D", "E", "F", "G", "H", "I", "J", "K", "L", "M",
               "N", "O", "P", "Q", "R", "S", "T", "U", "V", "W", "X", "Y", "Z">>
LowerCase == <<"a", "b", "c", "d", "e", "f", "g", "h", "i", "j", "k", "l", "m",
               "n", "o", "p", "q", "r", "s", "t", "u", "v", "w", "x", "y", "z">>

\* str.lower()
Lower(s) ==
    [i \in 1..Len(s) |->
        IF \E k \in 1..26 : UpperCase[k] = s[i]
        THEN LowerCase[CHOOSE k \in 1..26 : UpperCase[k] = s[i]]
        ELSE s[i]]

Labels(note) ==
    IF note.invitations.kind = "list" THEN note.invitations.items ELSE <<>>

MatchesInAnyCase(note) ==
    \E i \in 1..Len(Labels(note)) :
        Contains(Lower(Labels(note)[i]), Lower(Official_Review))

MatchesExactCase(note) ==
    \E i \in 1..Len(Labels(note)) :
        Contains(Labels(note)[i], Official_Review)

\* C6 as stated: a fetch that does not fail returns, in the service's order
\* and once each, the notes with a label containing Official_Review in any
\* letter case.
C6_FilterAnyCase ==
    (pc = "delay" /\ ~FetchFails(response)) =>
        reviews = SelectSeq(response.notes, MatchesInAnyCase)

\* C6 amended: the match is case-sensitive.
C6_FilterExactCase ==
    (pc = "delay" /\ ~FetchFails(response)) =>
        reviews = SelectSeq(response.notes, MatchesExactCase)

\* a note whose only matching label is its second one is returned, and the
\* note before it, labelled in lower case, is not
C6_Witness ==
    /\ pc = "delay"
    /\ Len(response.notes) = 2
    /\ response.notes[1].invitations = PyList(<<official_review>>)
    /\ Len(Labels(response.notes[2])) = 2
    /\ Labels(response.notes[2])[1] = Comment
    /\ reviews = <<response.notes[2]>>

\* C7: extract_reviewer_id returns the first signature of a review whose
\* signatures are a non-empty list, returns None when they are empty, missing
\* or unreadable, and never raises.
C7_ExtractFirstSignature ==
    /\ pc # "crashed"
    /\ pc = "delay" =>
          /\ Len(reviewer_ids) = Len(reviews)
          /\ \A i \in 1..Len(reviews) :
                LET sig == reviews[i].signatures
                IN IF sig.kind = "list" /\ Len(sig.items) > 0
                   THEN reviewer_ids[i] = Some(sig.items[1])
                   ELSE reviewer_ids[i] = None

\* one review with two signatures and one whose signatures are not a list
C7_Witness ==
    /\ pc = "delay"
    /\ Len(reviews) = 2
    /\ reviews[1].signatures = PyList(<<"R2", "R1">>)
    /\ reviewer_ids[1] = Some("R2")
    /\ reviews[2].signatures = PyInt
    /\ reviewer_ids[2] = None

Count(ids, Test(_)) == Cardinality({i \in 1..Len(ids) : Test(ids[i])})

PaperAccounting(R) ==
    /\ Len(expanded_rows') = Len(expanded_rows) + R
    /\ total_reviews' = total_reviews + R
    /\ papers_with_reviews' = papers_with_reviews + (IF R > 0 THEN 1 ELSE 0)

IsPresent(reviewer_id) == ~reviewer_id.isNone
IsPresentAndNonEmpty(reviewer_id) == ~reviewer_id.isNone /\ reviewer_id.s # ""

\* C8 as stated: processing a paper of whose reviews R yield a reviewer that
\* is not None appends R rows, adds R to total_reviews and increments
\* papers_with_reviews iff R > 0; total_reviews is the number of rows.
C8_AccountingNonAbsent ==
    /\ [][(pc = "loop" /\ pc' = "delay") =>
             PaperAccounting(Count(reviewer_ids', IsPresent))]_vars
    /\ [](total_reviews = Len(expanded_rows))

\* C8 amended: R counts the reviews whose reviewer is neither None nor the
\* empty string.
C8_AccountingNonEmpty ==
    /\ [][(pc = "loop" /\ pc' = "delay") =>
             PaperAccounting(Count(reviewer_ids', IsPresentAndNonEmpty))]_vars
    /\ [](total_reviews = Len(expanded_rows))

\* K = 2 reviews, R = 1 of them with a reviewer: one row, one review counted
C8_Witness ==
    /\ pc = "delay"
    /\ idx = 1
    /\ Len(reviews) = 2
    /\ reviewer_ids[1] = None
    /\ reviewer_ids[2] = Some("R1")
    /\ Len(expanded_rows) = 1
    /\ total_reviews = 1
    /\ papers_with_reviews = 1

HasReviewer(review) ==
    /\ review.signatures.kind = "list"
    /\ Len(review.signatures.items) > 0
    /\ review.signatures.items[1] # ""

RowsOf(paper, rs) ==
    LET kept == SelectSeq(rs, HasReviewer)
    IN [i \in 1..Len(kept) |->
           [paper_id |-> paper.paper_id,
            forum_url |-> paper.forum_url,
            reviewer_id |-> kept[i].signatures.items[1]]]

\* C9: processing a paper appends, after the rows already accumulated, one
\* row per review with a reviewer, in the order the reviews were returned and
\* without dropping duplicates; no other step changes the accumulated rows.
C9_OrderNoDedup ==
    [][IF pc = "loop" /\ pc' = "delay"
       THEN expanded_rows' = expanded_rows \o RowsOf(papers[idx'], reviews')
       ELSE expanded_rows' = expanded_rows]_vars

\* the first paper gave the same reviewer twice, the second paper one row
C9_Witness ==
    /\ pc = "delay"
    /\ idx = 2
    /\ Len(expanded_rows) = 3
    /\ expanded_rows[1] = expanded_rows[2]
    /\ expanded_rows[1].paper_id = "P1"
    /\ expanded_rows[3].paper_id = "P2"

\* C10: every accumulated row has a non-empty reviewer_id and the paper_id
\* and forum_url of a paper that was fetched; each row of the paper just
\* processed carries the first signature of one of the reviews its fetch
\* returned.
C10_RowInvariant ==
    /\ \A i \in 1..Len(expanded_rows) :
          /\ expanded_rows[i].reviewer_id # ""
          /\ \E k \in 1..Len(fetch_calls) :
                /\ expanded_rows[i].paper_id = papers[k].paper_id
                /\ expanded_rows[i].forum_url = papers[k].forum_url
    /\ pc = "delay" =>
          \A i \in 1..Len(expanded_rows) :
              expanded_rows[i].paper_id = papers[idx].paper_id =>
                  \E j \in 1..Len(reviews) :
                      /\ HasReviewer(reviews[j])
                      /\ expanded_rows[i].reviewer_id
                            = reviews[j].signatures.items[1]

\* a review signed with the empty string gave no row, its sibling gave one
C10_Witness ==
    /\ pc = "delay"
    /\ Len(reviews) = 2
    /\ reviews[1].signatures = PyList(<<"">>)
    /\ Len(expanded_rows) = 1
    /\ expanded_rows[1].reviewer_id = "R1"

====
